---- MODULE Spec2Model ----
(***************************************************************************)
(* A model of the three helper routines of linear_learner_workshop.ipynb:  *)
(*   - the shuffle / split / float32-conversion cell (lines 120-135),      *)
(*   - evaluate (lines 154-183),                                           *)
(*   - delete_endpoint (lines 199-204).                                    *)
(* Each routine has its own specifications (SpecSplit and SpecSize,         *)
(* SpecEval and SpecBatch, SpecReclaim and SpecCleanUp) over the same      *)
(* variables; a routine's specification leaves the other routines'         *)
(* variables at their initial values.                                      *)
(*                                                                         *)
(* Abstractions:                                                           *)
(*   - float64 values that the cells compute with are modelled exactly     *)
(*     where the code's result depends on rounding (N * 0.7, astype        *)
(*     float32) and as exact rationals in the metric formulas;             *)
(*   - the MT19937 generator behind np.random is a tape of words per seed: *)
(*     the same seed replays the same tape, words are otherwise arbitrary; *)
(*   - the prediction endpoint is a function from a feature row to a label *)
(*     and answers every batch, an empty one included, with one prediction *)
(*     per row, in order.                                                  *)
(***************************************************************************)
EXTENDS Integers, Sequences, FiniteSets, TLC

\* ------------------------------------------------------------------ bounds

\* Most rows a dataset of SpecSplit holds.
MaxRows == 3
\* Largest raw word the generator tape holds (words range over 0..MaxWord).
MaxWord == 2
\* Most times the split cell is run in one session.
MaxRuns == 2
\* Largest row count SpecSize computes train_size for.
MaxCount == 100

\* ------------------------------------------------------------- arithmetic

Max(a, b) == IF a >= b THEN a ELSE b
Min(a, b) == IF a <= b THEN a ELSE b

RECURSIVE Pow2(_)
Pow2(k) == IF k = 0 THEN 1 ELSE 2 * Pow2(k - 1)

\* The float64 literal 0.7 is 0x3FE6666666666666 = 0x16666666666666 * 2^-53.
\* Its 53-bit significand, as hexadecimal digits, least significant first.
F64_0_7_Digits == [i \in 1..14 |-> IF i = 14 THEN 1 ELSE 6]

\* digits * n, hexadecimal digits least significant first.
RECURSIVE MulDigits(_, _, _)
MulDigits(ds, n, carry) ==
    IF ds = << >>
    THEN IF carry = 0 THEN << >>
         ELSE <<carry % 16>> \o MulDigits(<< >>, n, carry \div 16)
    ELSE LET t == Head(ds) * n + carry
         IN  <<t % 16>> \o MulDigits(Tail(ds), n, t \div 16)

\* The four bits of one hexadecimal digit, most significant first.
DigitBits(d) == <<(d \div 8) % 2, (d \div 4) % 2, (d \div 2) % 2, d % 2>>

\* Bits of a digit string, most significant first (leading zeros kept).
RECURSIVE BitsOfDigits(_)
BitsOfDigits(ds) ==
    IF ds = << >> THEN << >>
    ELSE BitsOfDigits(Tail(ds)) \o DigitBits(Head(ds))

RECURSIVE StripZeros(_)
StripZeros(bs) ==
    IF bs # << >> /\ Head(bs) = 0 THEN StripZeros(Tail(bs)) ELSE bs

\* Value of a bit string (most significant first); used on short strings only.
RECURSIVE BitsValue(_)
BitsValue(bs) ==
    IF bs = << >> THEN 0
    ELSE 2 * BitsValue(SubSeq(bs, 1, Len(bs) - 1)) + bs[Len(bs)]

\* TRUE iff every bit is 1.
AllOnes(bs) == \A i \in 1..Len(bs) : bs[i] = 1

\* bs + 1 on a bit string that is not all ones, same length.
RECURSIVE BitsIncr(_)
BitsIncr(bs) ==
    IF bs[Len(bs)] = 0
    THEN SubSeq(bs, 1, Len(bs) - 1) \o <<1>>
    ELSE BitsIncr(SubSeq(bs, 1, Len(bs) - 1)) \o <<0>>

\* int(n * 0.7) as CPython computes it: n converts to float64 exactly, the
\* product is the exact product rounded to 53 significant bits (round half to
\* even), and int() truncates.
IntOfTimes0_7(n) ==
    LET bits == StripZeros(BitsOfDigits(MulDigits(F64_0_7_Digits, n, 0)))
        L    == Len(bits)
    IN  IF L <= 53 THEN 0      \* the product is below 2^53 * 2^-53 = 1
        ELSE
          LET e     == L - 53                        \* bits rounded away
              kept  == SubSeq(bits, 1, 53)
              rem   == BitsValue(SubSeq(bits, 54, L))
              half  == Pow2(e - 1)
              up    == rem > half \/ (rem = half /\ kept[53] = 1)
          IN  IF ~up THEN BitsValue(SubSeq(kept, 1, e))
              ELSE IF AllOnes(kept) THEN Pow2(e)
              ELSE BitsValue(SubSeq(BitsIncr(kept), 1, e))


\* float64 -> float32 (astype('float32')) on a non-negative integer value:
\* rounded to 24 significant bits, round half to even.
RECURSIVE DroppedBits(_)
DroppedBits(x) == IF x < 16777216 THEN 0 ELSE 1 + DroppedBits(x \div 2)

Float32(x) ==
    LET e == DroppedBits(x)
    IN  IF e = 0 THEN x
        ELSE LET q    == x \div Pow2(e)
                 r    == x % Pow2(e)
                 half == Pow2(e - 1)
                 up   == r > half \/ (r = half /\ q % 2 = 1)
             IN  (IF up THEN q + 1 ELSE q) * Pow2(e)

\* ------------------------------------------------------------------ state

VARIABLES
    \* --- split cell (lines 120-135)
    dataset,         \* rows of the CSV file pd.read_csv reads; a row is its
                     \* feature columns followed by the label column
    raw_data,        \* the array after np.random.shuffle
    train_size,
    train_features, train_labels, test_features, test_labels,
    vectors, labels, \* the float32 arrays handed to write_numpy_to_dense_tensor
    splitStatus,     \* "not run" | "uploaded" | "upload raised"
    splitRuns,       \* times the cell has run
    rng,             \* np.random's global state: [stream, pos]
    tape,            \* words each stream has produced so far
    \* --- split sizes alone (lines 123-127)
    count, n_train, n_test, sizeDone,
    \* --- evaluate (lines 154-183)
    ev_features, ev_labels, ev_model_name, ev_verbose,
    linear_predictor,  \* the endpoint: feature row -> predicted label
    batches,           \* the batches handed to predict, in call order
    test_preds, ev_status, ev_result,
    \* --- delete_endpoint (lines 199-204)
    live,            \* endpoints that exist at the service
    del_calls,       \* calls of delete_endpoint per predictor
    stdout,          \* the lines delete_endpoint has printed
    del_status,      \* "idle" | "completed" | "raised"
    \* --- clean-up loop (lines 493-494)
    attempts,        \* the remote delete calls the loop has made, in order:
                     \* <<endpoint, outcome>>
    cleanup_i,       \* position in the list of the predictor handled next
    cleanup_pc       \* "loop" | "done" | "aborted" (an exception left the loop)

splitVars == <<dataset, raw_data, train_size, train_features, train_labels,
               test_features, test_labels, vectors, labels, splitStatus,
               splitRuns, rng, tape>>
sizeVars == <<count, n_train, n_test, sizeDone>>
evalVars == <<ev_features, ev_labels, ev_model_name, ev_verbose,
              linear_predictor, batches, test_preds, ev_status, ev_result>>
reclaimVars == <<live, del_calls, stdout, del_status, attempts,
                 cleanup_i, cleanup_pc>>
vars == <<splitVars, sizeVars, evalVars, reclaimVars>>

\* --------------------------------------------------------- the split cell

\* Feature values: 0 and a value float32 cannot represent (2^24 + 1).
FeatureValues == {0, 16777217}
LabelValues == {0, 1}
\* A CSV row: one feature column, then the label column.
RowValues == {<<x, y>> : x \in FeatureValues, y \in LabelValues}

SeqsUpTo(S, n) == UNION {[1..k -> S] : k \in 0..n}

\* np.random.seed(0): the global generator restarts stream 0 at its start.
np_random_seed_skipped(r) == r
np_random_seed(r) == [stream |-> "seed0", pos |-> 0]

\* The words a generator at state r hands out next, k of them: those on the
\* tape are replayed, the rest are new.
Replays(r, ws) ==
    \A k \in 1..Len(ws) :
        r.pos + k <= Len(tape[r.stream]) => ws[k] = tape[r.stream][r.pos + k]

Record(r, ws) ==
    LET old == tape[r.stream]
        new == IF r.pos + Len(ws) <= Len(old) THEN old
               ELSE SubSeq(old, 1, r.pos) \o ws
    IN  [tape EXCEPT ![r.stream] = new]

\* What one iteration of shuffle does to rows i and j (1-based): x[j] is
\* buffered, x[i] is copied to x[j], the buffer to x[i].
SwapRows_noBuffer(x, i, j) == [x EXCEPT ![j] = x[i]]
SwapRows(x, i, j) == [x EXCEPT ![i] = x[j], ![j] = x[i]]

\* np.random.shuffle(x) on a 2-D array: Fisher-Yates over the rows, from the
\* last row down; iteration i (0-based) draws j in 0..i. ws[k] is the k-th word.
RECURSIVE ShuffleFrom(_, _, _)
ShuffleFrom(x, i, ws) ==
    IF i < 1 THEN x
    ELSE LET j == Head(ws) % (i + 1)
         IN  ShuffleFrom(SwapRows(x, i + 1, j + 1), i - 1, Tail(ws))

np_random_shuffle(x, ws) == ShuffleFrom(x, Len(x) - 1, ws)

\* int(raw_data.shape[0] * 0.7)
TrainSize(n) == IntOfTimes0_7(n)

\* a[:k] and a[k:] for k >= 0
SliceTo(a, k) == SubSeq(a, 1, Min(k, Len(a)))
SliceFrom(a, k) == SubSeq(a, Min(k, Len(a)) + 1, Len(a))

\* a[:, :-1] and a[:, -1]
FeatureCols(a) == [i \in 1..Len(a) |-> SubSeq(a[i], 1, Len(a[i]) - 1)]
LabelCol_firstColumn(a) == [i \in 1..Len(a) |-> a[i][1]]
LabelCol(a) == [i \in 1..Len(a) |-> a[i][Len(a[i])]]

\* np.array([t.tolist() for t in a]).astype('float32')
AsFloat32Rows(a) == [i \in 1..Len(a) |-> [c \in 1..Len(a[i]) |-> Float32(a[i][c])]]
AsFloat32(a) == [i \in 1..Len(a) |-> Float32(a[i])]


\* The cell of lines 120-135, run once: read the CSV, seed, shuffle, split,
\* convert, upload. The upload (SDK serialisation and S3) is an external call
\* that either completes or raises; the names bound before it stay bound.
RunSplitCell ==
    /\ splitRuns < MaxRuns
    /\ LET r0 == np_random_seed(rng)
           n  == Len(dataset)
       IN  \E ws \in [1..Max(n - 1, 0) -> 0..MaxWord] :
             /\ Replays(r0, ws)
             /\ tape' = Record(r0, ws)
             /\ rng' = [r0 EXCEPT !.pos = r0.pos + Len(ws)]
             /\ raw_data' = np_random_shuffle(dataset, ws)
    /\ train_size' = TrainSize(Len(raw_data'))
    /\ train_features' = FeatureCols(SliceTo(raw_data', train_size'))
    /\ train_labels' = LabelCol(SliceTo(raw_data', train_size'))
    /\ test_features' = FeatureCols(SliceFrom(raw_data', train_size'))
    /\ test_labels' = LabelCol(SliceFrom(raw_data', train_size'))
    /\ vectors' = AsFloat32Rows(train_features')
    /\ labels' = AsFloat32(train_labels')
    /\ splitStatus' \in {"uploaded", "upload raised"}
    /\ splitRuns' = splitRuns + 1
    /\ UNCHANGED <<dataset, sizeVars, evalVars, reclaimVars>>

\* Lines 123-127 on an array of `count` rows, the rows standing for
\* themselves: train_size and the lengths of the two slices.
ComputeSplitSizes ==
    /\ ~sizeDone
    /\ LET rows == [i \in 1..count |-> i]
           k    == TrainSize(Len(rows))
       IN  /\ n_train' = Len(SliceTo(rows, k))
           /\ n_test' = Len(SliceFrom(rows, k))
    /\ sizeDone' = TRUE
    /\ UNCHANGED <<count, splitVars, evalVars, reclaimVars>>

\* ------------------------------------------------------ initial conditions

SplitIdle ==
    /\ raw_data = << >> /\ train_size = 0
    /\ train_features = << >> /\ train_labels = << >>
    /\ test_features = << >> /\ test_labels = << >>
    /\ vectors = << >> /\ labels = << >>
    /\ splitStatus = "not run" /\ splitRuns = 0
    \* before any seed call the generator runs on OS entropy
    /\ rng = [stream |-> "entropy", pos |-> 0]
    /\ tape = [s \in {"entropy", "seed0"} |-> << >>]

SizeIdle == n_train = 0 /\ n_test = 0 /\ sizeDone = FALSE


\* ---------------------------------------------------------------- evaluate

\* Most rows of a test set, and of a label sequence, given to evaluate.
MaxTest == 5
\* np.array_split(test_features, 100)
NumBatches == 100

FeatureRows == {<<x>> : x \in FeatureValues}
ModelNames == {"Defaults", "Autothresh"}

\* np.array_split(a, k): k sections, the first Len(a) % k one row longer.
np_array_split_remainderDropped(a, k) ==
    LET each == Len(a) \div k
    IN  [i \in 1..k |-> SubSeq(a, (i - 1) * each + 1, i * each)]
np_array_split(a, k) ==
    LET each   == Len(a) \div k
        extras == Len(a) % k
        start(i) == (i - 1) * each + Min(i - 1, extras)
        size(i)  == each + (IF i <= extras THEN 1 ELSE 0)
    IN  [i \in 1..k |-> SubSeq(a, start(i) + 1, start(i) + size(i))]

\* linear_predictor.predict(batch)['predictions']: one record per row.
Predict(p, batch) ==
    [j \in 1..Len(batch) |-> [predicted_label |-> p[batch[j]]]]

RECURSIVE np_concatenate(_)
np_concatenate(arrays) ==
    IF arrays = << >> THEN << >>
    ELSE Head(arrays) \o np_concatenate(Tail(arrays))

\* Lines 159-161: the predicted labels of the test rows.
PredictedLabels(p, features) ==
    LET prediction_batches ==
            [b \in 1..NumBatches |-> Predict(p, np_array_split(features, NumBatches)[b])]
    IN  np_concatenate([b \in 1..NumBatches |->
            [j \in 1..Len(prediction_batches[b]) |->
                prediction_batches[b][j].predicted_label]])

\* NumPy broadcasting of two 1-D arrays: equal lengths, or one of length 1.
Broadcastable(a, b) == Len(a) = Len(b) \/ Len(a) = 1 \/ Len(b) = 1
BroadcastLen(a, b) == IF Len(a) = 1 THEN Len(b) ELSE Len(a)
Elt(a, i) == IF Len(a) = 1 THEN a[1] ELSE a[i]

np_logical_and(a, b) ==
    [i \in 1..BroadcastLen(a, b) |-> Elt(a, i) # 0 /\ Elt(b, i) # 0]
OneMinus(a) == [i \in 1..Len(a) |-> 1 - a[i]]

\* .sum() of a boolean array
RECURSIVE Sum(_)
Sum(a) == IF a = << >> THEN 0 ELSE (IF Head(a) THEN 1 ELSE 0) + Sum(Tail(a))

\* Lines 164-167.
CountTP(tl, tp) == Sum(np_logical_and(tl, tp))
CountFP_notNegated(tl, tp) == Sum(np_logical_and(tl, tp))
CountFP(tl, tp) == Sum(np_logical_and(OneMinus(tl), tp))
CountTN(tl, tp) == Sum(np_logical_and(OneMinus(tl), OneMinus(tp)))
CountFN(tl, tp) == Sum(np_logical_and(tl, OneMinus(tp)))

\* np.float64 values, rounding aside: a non-negative rational num/den, nan or
\* +inf.
Num(a, b) == [kind |-> "num", num |-> a, den |-> b]
NaN == [kind |-> "nan", num |-> 0, den |-> 0]
Inf == [kind |-> "inf", num |-> 0, den |-> 0]
IsZero(x) == x.kind = "num" /\ x.num = 0

FMul(x, y) ==
    IF x.kind = "nan" \/ y.kind = "nan" THEN NaN
    ELSE IF x.kind = "inf" \/ y.kind = "inf"
         THEN IF IsZero(x) \/ IsZero(y) THEN NaN ELSE Inf
    ELSE Num(x.num * y.num, x.den * y.den)

FAdd(x, y) ==
    IF x.kind = "nan" \/ y.kind = "nan" THEN NaN
    ELSE IF x.kind = "inf" \/ y.kind = "inf" THEN Inf
    ELSE Num(x.num * y.den + y.num * x.den, x.den * y.den)

\* NumPy scalar division: x/0 is nan for x = 0 and inf otherwise (a
\* RuntimeWarning, no exception).
FDiv(x, y) ==
    IF x.kind = "nan" \/ y.kind = "nan" THEN NaN
    ELSE IF x.kind = "inf" THEN (IF y.kind = "inf" THEN NaN ELSE Inf)
    ELSE IF y.kind = "inf" THEN Num(0, 1)
    ELSE IF y.num = 0 THEN (IF x.num = 0 THEN NaN ELSE Inf)
    ELSE Num(x.num * y.den, x.den * y.num)

\* Lines 170-171 are left blank in the notebook ("recall = # TODO"); the
\* standard definitions, on NumPy integers.
Recall(tp, fn) == FDiv(Num(tp, 1), Num(tp + fn, 1))
Precision(tp, fp) == FDiv(Num(tp, 1), Num(tp + fp, 1))

\* Line 172.
Accuracy_withoutTN(tp, fp, tn, fn) == FDiv(Num(tp, 1), Num(tp + fp + tn + fn, 1))
Accuracy(tp, fp, tn, fn) == FDiv(Num(tp + tn, 1), Num(tp + fp + tn + fn, 1))

\* Line 173.
F1Score_zeroWhenUndefined(precision, recall) ==
    LET s == FAdd(precision, recall)
    IN  IF s.kind # "num" \/ s.num = 0 THEN Num(0, 1)
        ELSE FDiv(FMul(FMul(Num(2, 1), precision), recall), s)
F1Score(precision, recall) ==
    FDiv(FMul(FMul(Num(2, 1), precision), recall), FAdd(precision, recall))

\* Line 176: pd.crosstab builds a DataFrame of the two arrays, which raises
\* ValueError when their lengths differ.
CrosstabRaises(tl, tp) == Len(tl) # Len(tp)

\* Lines 182-183.
MetricsResult(tp, fp, fn, tn, precision, recall, accuracy, f1, model_name) ==
    [TP |-> tp, FP |-> fp, FN |-> fn, TN |-> tn, Precision |-> precision,
     Recall |-> recall, Accuracy |-> accuracy, F1 |-> f1, Model |-> model_name]

\* One call evaluate(linear_predictor, ev_features, ev_labels, ev_model_name,
\* ev_verbose).
Evaluate ==
    /\ ev_status = "idle"
    /\ batches' = np_array_split(ev_features, NumBatches)
    /\ test_preds' = PredictedLabels(linear_predictor, ev_features)
    /\ IF ~Broadcastable(ev_labels, test_preds')
       THEN \* np.logical_and: operands could not be broadcast together
            /\ ev_status' = "ValueError"
            /\ UNCHANGED ev_result
       ELSE LET tp == CountTP(ev_labels, test_preds')
                fp == CountFP(ev_labels, test_preds')
                tn == CountTN(ev_labels, test_preds')
                fn == CountFN(ev_labels, test_preds')
                recall    == Recall(tp, fn)
                precision == Precision(tp, fp)
                accuracy  == Accuracy(tp, fp, tn, fn)
                f1        == F1Score(precision, recall)
            IN  IF ev_verbose /\ CrosstabRaises(ev_labels, test_preds')
                THEN /\ ev_status' = "ValueError"
                     /\ UNCHANGED ev_result
                ELSE /\ ev_status' = "returned"
                     /\ ev_result' = MetricsResult(tp, fp, fn, tn, precision,
                                         recall, accuracy, f1, ev_model_name)
    /\ UNCHANGED <<ev_features, ev_labels, ev_model_name, ev_verbose,
                   linear_predictor, splitVars, sizeVars, reclaimVars>>

EvalIdle ==
    /\ batches = << >> /\ test_preds = << >>
    /\ ev_status = "idle" /\ ev_result = << >>


\* --------------------------------------------------------- delete_endpoint

\* Most calls of delete_endpoint on one predictor.
MaxCalls == 2

\* predictor.endpoint of the three predictors the notebook deploys.
Predictors == {"defaults", "autothresh", "class_weights"}

\* What boto3.client('sagemaker').delete_endpoint(EndpointName=e) can do: it
\* returns (the endpoint is removed), or raises: the endpoint does not exist
\* ("not found"), or the request fails for another reason, whether or not the
\* endpoint exists ("permission denied", "network failure"), which leaves the
\* endpoint as it was.
ServiceOutcomes(e) ==
    (IF e \in live THEN {"ok"} ELSE {"not found"})
        \cup {"permission denied", "network failure"}

\* Lines 200-204: the try body prints 'Deleted ...'; the bare except prints
\* 'Already deleted: ...' for whatever was raised. Nothing propagates.
Handle_exceptNotFoundOnly(e, outcome) ==
    IF outcome = "ok"
    THEN [printed |-> <<"Deleted", e>>, status |-> "completed"]
    ELSE IF outcome = "not found"
    THEN [printed |-> <<"Already deleted", e>>, status |-> "completed"]
    ELSE [printed |-> << >>, status |-> "raised"]
Handle_noExcept(e, outcome) ==
    IF outcome = "ok"
    THEN [printed |-> <<"Deleted", e>>, status |-> "completed"]
    ELSE [printed |-> << >>, status |-> "raised"]
Handle(e, outcome) ==
    IF outcome = "ok"
    THEN [printed |-> <<"Deleted", e>>, status |-> "completed"]
    ELSE [printed |-> <<"Already deleted", e>>, status |-> "completed"]

\* One call delete_endpoint(predictor) in which the remote call ends with
\* `outcome`.
DeleteCall(e, outcome) ==
    /\ del_calls[e] < MaxCalls
    /\ outcome \in ServiceOutcomes(e)
    /\ LET h == Handle(e, outcome)
       IN  /\ live' = IF outcome = "ok" THEN live \ {e} ELSE live
           /\ stdout' = IF h.printed = << >> THEN stdout
                        ELSE Append(stdout, h.printed)
           /\ del_status' = h.status
    /\ del_calls' = [del_calls EXCEPT ![e] = @ + 1]
    /\ UNCHANGED <<splitVars, sizeVars, evalVars>>

delete_endpoint(e) ==
    \E outcome \in ServiceOutcomes(e) : DeleteCall(e, outcome)

\* delete_endpoint called on its own, outside the clean-up loop.
DeleteSomeEndpoint ==
    /\ \E e \in Predictors : delete_endpoint(e)
    /\ UNCHANGED <<attempts, cleanup_i, cleanup_pc>>

\* Line 493: [defaults_predictor, autothresh_predictor,
\* class_weights_predictor], by endpoint name.
CleanUpList == <<"defaults", "autothresh", "class_weights">>

\* Lines 493-494, one iteration: delete_endpoint on the next predictor of the
\* list. An exception leaving delete_endpoint would leave the for loop too.
CleanUpStep ==
    /\ cleanup_pc = "loop"
    /\ \E outcome \in ServiceOutcomes(CleanUpList[cleanup_i]) :
         /\ DeleteCall(CleanUpList[cleanup_i], outcome)
         /\ attempts' = Append(attempts, <<CleanUpList[cleanup_i], outcome>>)
    /\ IF del_status' = "raised"
       THEN cleanup_pc' = "aborted" /\ cleanup_i' = cleanup_i
       ELSE /\ cleanup_i' = cleanup_i + 1
            /\ cleanup_pc' = IF cleanup_i' > Len(CleanUpList) THEN "done"
                             ELSE "loop"

\* No call of delete_endpoint made yet, the loop not entered.
ReclaimQuiet ==
    /\ del_calls = [e \in Predictors |-> 0]
    /\ stdout = << >>
    /\ del_status = "idle"
    /\ attempts = << >>
    /\ cleanup_i = 1
    /\ cleanup_pc = "loop"

ReclaimIdle == live = Predictors /\ ReclaimQuiet

\* ----------------------------------------------------------- specifications

\* Defaults of the inputs a specification does not draw.
NoDataset == dataset = << >>
NoCount == count = 0
NoEvalInput ==
    /\ ev_features = << >> /\ ev_labels = << >>
    /\ ev_model_name = "Defaults" /\ ev_verbose = FALSE
    /\ linear_predictor = [f \in FeatureRows |-> 0]

\* The split cell on every dataset of at most MaxRows rows.
InitSplit ==
    /\ dataset \in SeqsUpTo(RowValues, MaxRows)
    /\ SplitIdle
    /\ NoCount /\ SizeIdle
    /\ NoEvalInput /\ EvalIdle
    /\ ReclaimIdle
NextSplit == RunSplitCell
SpecSplit == InitSplit /\ [][NextSplit]_vars

\* The split sizes for every row count up to MaxCount.
InitSize ==
    /\ count \in 0..MaxCount
    /\ SizeIdle
    /\ NoDataset /\ SplitIdle
    /\ NoEvalInput /\ EvalIdle
    /\ ReclaimIdle
NextSize == ComputeSplitSizes
SpecSize == InitSize /\ [][NextSize]_vars

\* evaluate on every test set of 1..MaxTest rows, with every label sequence of
\* at most MaxTest labels and every endpoint.
InitEval ==
    /\ ev_features \in SeqsUpTo(FeatureRows, MaxTest) \ {<< >>}
    /\ ev_labels \in SeqsUpTo(LabelValues, MaxTest)
    /\ ev_model_name \in ModelNames
    /\ ev_verbose \in BOOLEAN
    /\ linear_predictor \in [FeatureRows -> LabelValues]
    /\ EvalIdle
    /\ NoDataset /\ SplitIdle
    /\ NoCount /\ SizeIdle
    /\ ReclaimIdle
NextEval == Evaluate
SpecEval == InitEval /\ [][NextEval]_vars

\* Most rows of a test set of SpecBatch, and the longest motif its rows repeat.
MaxBatchRows == 120
MaxMotif == 2

\* n rows that repeat the motif m.
Repeated(m, n) == [i \in 1..n |-> m[((i - 1) % Len(m)) + 1]]

\* evaluate on test sets of up to MaxBatchRows rows (so that batches of two
\* rows, of one row and of none all occur): the rows repeat a motif, the
\* labels alternate, one label per row.
InitBatch ==
    /\ \E n \in 0..MaxBatchRows :
         /\ \E m \in SeqsUpTo(FeatureRows, MaxMotif) \ {<< >>} :
                ev_features = Repeated(m, n)
         /\ ev_labels = Repeated(<<0, 1>>, n)
    /\ ev_model_name = "Defaults"
    /\ ev_verbose = FALSE
    /\ linear_predictor \in [FeatureRows -> LabelValues]
    /\ EvalIdle
    /\ NoDataset /\ SplitIdle
    /\ NoCount /\ SizeIdle
    /\ ReclaimIdle
NextBatch == Evaluate
SpecBatch == InitBatch /\ [][NextBatch]_vars

\* delete_endpoint called in any order on the deployed predictors.
InitReclaim ==
    /\ ReclaimIdle
    /\ NoDataset /\ SplitIdle
    /\ NoCount /\ SizeIdle
    /\ NoEvalInput /\ EvalIdle
NextReclaim == DeleteSomeEndpoint
SpecReclaim == InitReclaim /\ [][NextReclaim]_vars

\* The clean-up loop, run once, whichever of the endpoints still exist. The
\* loop is sequential code and every remote call returns or raises, so an
\* iteration that can run does run.
InitCleanUp ==
    /\ live \in SUBSET Predictors
    /\ ReclaimQuiet
    /\ NoDataset /\ SplitIdle
    /\ NoCount /\ SizeIdle
    /\ NoEvalInput /\ EvalIdle
NextCleanUp == CleanUpStep
SpecCleanUp == InitCleanUp /\ [][NextCleanUp]_vars /\ WF_vars(CleanUpStep)


\* ------------------------------------------------------------------ claims

\* Number of positions of the equal-length sequences tl, tp holding the pair
\* (t, p).
Pairs(tl, tp, t, p) ==
    Cardinality({i \in 1..Len(tl) : tl[i] = t /\ tp[i] = p})

\* v is the number a/b (b > 0).
IsRatio(v, a, b) == v.kind = "num" /\ v.num * b = v.den * a

\* C1: for equal-length binary label and prediction sequences, evaluate
\* returns TP, FP, TN, FN as the numbers of positions holding (1,1), (0,1),
\* (0,0), (1,0); the four are non-negative and add up to the length.
C1_ConfusionCounts ==
    (ev_status = "returned" /\ Len(ev_labels) = Len(test_preds)) =>
        /\ ev_result.TP = Pairs(ev_labels, test_preds, 1, 1)
        /\ ev_result.FP = Pairs(ev_labels, test_preds, 0, 1)
        /\ ev_result.TN = Pairs(ev_labels, test_preds, 0, 0)
        /\ ev_result.FN = Pairs(ev_labels, test_preds, 1, 0)
        /\ ev_result.TP >= 0 /\ ev_result.FP >= 0
        /\ ev_result.TN >= 0 /\ ev_result.FN >= 0
        /\ ev_result.TP + ev_result.FP + ev_result.TN + ev_result.FN
               = Len(ev_labels)

\* The example of the specification: labels [1,0,1,1,0], predictions
\* [1,0,0,1,0] give TP=2, FP=0, TN=2, FN=1.
C1_Witness ==
    /\ ev_status = "returned"
    /\ ev_labels = <<1, 0, 1, 1, 0>> /\ test_preds = <<1, 0, 0, 1, 0>>
    /\ ev_result.TP = 2 /\ ev_result.FP = 0
    /\ ev_result.TN = 2 /\ ev_result.FN = 1

\* C2: where the denominators are not zero, the result of evaluate has
\* recall = TP/(TP+FN), precision = TP/(TP+FP), accuracy = (TP+TN)/total and
\* F1 = 2*precision*recall/(precision+recall) (F1 * (P + R) = 2 * P * R with
\* P = TP/(TP+FP), R = TP/(TP+FN)), over the counts of the paired inputs, which
\* it carries together with the model name it was given.
C2_Metrics ==
    (ev_status = "returned" /\ Len(ev_labels) = Len(test_preds)) =>
        LET TP == Pairs(ev_labels, test_preds, 1, 1)
            FP == Pairs(ev_labels, test_preds, 0, 1)
            TN == Pairs(ev_labels, test_preds, 0, 0)
            FN == Pairs(ev_labels, test_preds, 1, 0)
            r  == ev_result
        IN  /\ TP + FN # 0 => IsRatio(r.Recall, TP, TP + FN)
            /\ TP + FP # 0 => IsRatio(r.Precision, TP, TP + FP)
            /\ TP + FP + TN + FN # 0 =>
                   IsRatio(r.Accuracy, TP + TN, TP + FP + TN + FN)
            /\ TP # 0 =>
                   /\ r.F1.kind = "num"
                   /\ r.F1.num * (TP * (TP + FN) + TP * (TP + FP))
                          = r.F1.den * (2 * TP * TP)
            /\ <<r.TP, r.FP, r.TN, r.FN>> = <<TP, FP, TN, FN>>
            /\ r.Model = ev_model_name

\* The example again: recall 2/3, precision 1, accuracy 4/5, F1 4/5.
C2_Witness ==
    /\ ev_status = "returned"
    /\ ev_labels = <<1, 0, 1, 1, 0>> /\ test_preds = <<1, 0, 0, 1, 0>>
    /\ IsRatio(ev_result.Recall, 2, 3) /\ IsRatio(ev_result.Precision, 1, 1)
    /\ IsRatio(ev_result.Accuracy, 4, 5) /\ IsRatio(ev_result.F1, 4, 5)
    /\ ev_result.Model = "Autothresh"

\* C3: a metric whose denominator is zero is returned as not-a-number, never
\* as a number: recall when TP+FN = 0, precision when TP+FP = 0, F1 when
\* precision + recall is zero or undefined (that is, when TP = 0).
C3_UndefinedMetrics ==
    ev_status = "returned" =>
        LET r == ev_result
        IN  /\ r.TP + r.FN = 0 => r.Recall.kind = "nan"
            /\ r.TP + r.FP = 0 => r.Precision.kind = "nan"
            /\ r.TP = 0 => r.F1.kind = "nan"

\* All-zero labels with all-zero predictions: recall is undefined.
C3_Witness ==
    /\ ev_status = "returned"
    /\ ev_labels = <<0, 0, 0>> /\ test_preds = <<0, 0, 0>>
    /\ ev_result.TP = 0 /\ ev_result.FN = 0
    /\ ev_result.Recall.kind = "nan" /\ ev_result.F1.kind = "nan"

\* C4, as claimed: whenever the labels and the predictions differ in length
\* the call fails and returns no result.
C4_LengthMismatchFails ==
    (ev_status # "idle" /\ Len(ev_labels) # Len(test_preds)) =>
        ev_status = "ValueError"

\* C5, as claimed: the training subset has floor(0.7 * N) rows and the test
\* subset the other N - floor(0.7 * N).
C5_SplitSizes ==
    sizeDone =>
        /\ n_train = (7 * count) \div 10
        /\ n_test = count - (7 * count) \div 10


\* The rows of a subset, put together again from its two arrays.
Rows(features, lbls) == [i \in 1..Len(features) |-> features[i] \o <<lbls[i]>>]

\* Number of times row v occurs in a.
Occurrences(a, v) == Cardinality({i \in 1..Len(a) : a[i] = v})

\* C6: after the cell has run, the training and test subsets partition the
\* dataset: every row occurs in the two subsets together exactly as often as
\* in the dataset (none lost, none duplicated, none in both beyond its own
\* multiplicity), and the subset sizes add up to the dataset's.
C6_Partition ==
    splitRuns > 0 =>
        /\ Len(train_features) = Len(train_labels)
        /\ Len(test_features) = Len(test_labels)
        /\ Len(train_features) + Len(test_features) = Len(dataset)
        /\ \A v \in RowValues :
               Occurrences(Rows(train_features, train_labels), v)
                 + Occurrences(Rows(test_features, test_labels), v)
               = Occurrences(dataset, v)

\* Three distinct rows, moved by the shuffle, two of them in the training
\* subset and one in the test subset.
C6_Witness ==
    /\ splitRuns > 0
    /\ Len(dataset) = 3 /\ Cardinality({dataset[i] : i \in 1..3}) = 3
    /\ raw_data # dataset
    /\ Len(train_features) = 2 /\ Len(test_features) = 1

\* C7: some permutation pi of the dataset's rows gives, for every i, the
\* features and the label of train row i (rows pi[1..k]) and of test row i
\* (rows pi[k+1..N]) from one and the same dataset row; the uploaded vectors
\* and labels are the float32 images of those same train rows, one per row.
C7_Aligned ==
    splitRuns > 0 =>
        LET N == Len(dataset)
            k == Len(train_features)
            feat(row) == SubSeq(row, 1, Len(row) - 1)
            lab(row)  == row[Len(row)]
        IN  /\ Len(train_labels) = k
            /\ Len(test_features) = N - k /\ Len(test_labels) = N - k
            /\ Len(vectors) = k /\ Len(labels) = k
            /\ \E pi \in Permutations(1..N) :
                 /\ \A i \in 1..k :
                      /\ train_features[i] = feat(dataset[pi[i]])
                      /\ train_labels[i] = lab(dataset[pi[i]])
                      /\ vectors[i] = [c \in 1..Len(feat(dataset[pi[i]])) |->
                                          Float32(feat(dataset[pi[i]])[c])]
                      /\ labels[i] = Float32(lab(dataset[pi[i]]))
                 /\ \A i \in 1..(N - k) :
                      /\ test_features[i] = feat(dataset[pi[k + i]])
                      /\ test_labels[i] = lab(dataset[pi[k + i]])

\* Rows whose label differs from row to row were shuffled, and a feature that
\* float32 cannot hold was rounded on the way to the upload.
C7_Witness ==
    /\ splitRuns > 0
    /\ dataset = <<<<0, 1>>, <<16777217, 0>>, <<16777217, 1>>>>
    /\ raw_data = <<<<16777217, 1>>, <<0, 1>>, <<16777217, 0>>>>
    /\ vectors = <<<<16777216>>, <<0>>>> /\ labels = <<1, 1>>
    /\ test_features = <<<<16777217>>>> /\ test_labels = <<0>>

\* C8: a second run of the cell on the same dataset leaves every output of
\* the first run as it was: same shuffled array, same subsets, same order.
C8_Deterministic ==
    [][(splitRuns >= 1 /\ splitRuns' = splitRuns + 1) =>
          /\ raw_data' = raw_data
          /\ train_size' = train_size
          /\ train_features' = train_features /\ train_labels' = train_labels
          /\ test_features' = test_features /\ test_labels' = test_labels
          /\ vectors' = vectors /\ labels' = labels]_vars

\* The cell has run twice on three distinct rows that the shuffle moved.
C8_Witness ==
    /\ splitRuns = 2
    /\ Len(dataset) = 3 /\ Cardinality({dataset[i] : i \in 1..3}) = 3
    /\ raw_data # dataset
    /\ rng.stream = "seed0" /\ Len(tape["seed0"]) = 2

\* C9, as claimed: run on an empty dataset, the splitter fails with an
\* invalid-input error instead of producing (empty) subsets.
C9_EmptyDatasetRejected ==
    (splitRuns > 0 /\ Len(dataset) = 0) => splitStatus = "InvalidInputError"

\* C10: a call of delete_endpoint on an endpoint that does not exist completes
\* normally: it reports 'Already deleted', raises nothing and changes nothing
\* at the service.
C10_Idempotent ==
    [][\A e \in Predictors :
          (del_calls'[e] = del_calls[e] + 1 /\ e \notin live) =>
              /\ del_status' = "completed"
              /\ stdout' = Append(stdout, <<"Already deleted", e>>)
              /\ live' = live]_vars

\* Two consecutive calls on one endpoint: the first deleted it, the second
\* found it gone, and both completed.
C10_Witness ==
    /\ stdout = <<<<"Deleted", "defaults">>, <<"Already deleted", "defaults">>>>
    /\ del_calls["defaults"] = 2
    /\ "defaults" \notin live
    /\ del_status = "completed"


\* What delete_endpoint prints for an attempt with the given outcome.
Reported(a) == <<IF a[2] = "ok" THEN "Deleted" ELSE "Already deleted", a[1]>>

\* C11: the clean-up loop attempts the predictors in list order, one attempt
\* each, whatever the earlier attempts raised; every failure is absorbed and
\* reported as 'Already deleted'; no exception leaves the loop; and the loop
\* ends, having attempted every predictor of the list exactly once.
C11_CleanUpAttemptsAll ==
    /\ [](/\ cleanup_pc # "aborted" /\ del_status # "raised"
          /\ Len(attempts) = cleanup_i - 1
          /\ \A k \in 1..Len(attempts) : attempts[k][1] = CleanUpList[k]
          /\ stdout = [k \in 1..Len(attempts) |-> Reported(attempts[k])])
    /\ <>(/\ cleanup_pc = "done"
          /\ [k \in 1..Len(attempts) |-> attempts[k][1]] = CleanUpList)

\* The loop has ended after a permission failure, a missing endpoint and a
\* network failure, each reported as 'Already deleted'.
C11_Witness ==
    /\ cleanup_pc = "done"
    /\ attempts = <<<<"defaults", "permission denied">>,
                    <<"autothresh", "not found">>,
                    <<"class_weights", "network failure">>>>
    /\ stdout = <<<<"Already deleted", "defaults">>,
                  <<"Already deleted", "autothresh">>,
                  <<"Already deleted", "class_weights">>>>
    /\ live = {"defaults", "class_weights"}


\* Rows in the first b of the batches bs.
RECURSIVE RowsIn(_, _)
RowsIn(bs, b) == IF b = 0 THEN 0 ELSE RowsIn(bs, b - 1) + Len(bs[b])

\* C12: evaluate hands the test rows to the endpoint as exactly 100 batches
\* that are contiguous and in row order (batch b holds the rows that follow
\* those of batches 1..b-1, and the 100 batches hold all rows); batch sizes
\* differ by at most one, and some batch is empty when there are fewer than
\* 100 rows; the concatenated predictions are one per test row, the i-th
\* being the endpoint's label for the i-th row, so they pair with the labels.
C12_Batches ==
    ev_status # "idle" =>
        LET n == Len(ev_features)
        IN  /\ Len(batches) = 100
            /\ \A b \in 1..100 :
                   batches[b] = SubSeq(ev_features, RowsIn(batches, b - 1) + 1,
                                       RowsIn(batches, b))
            /\ RowsIn(batches, 100) = n
            /\ \A b, c \in 1..100 : Len(batches[b]) - Len(batches[c]) <= 1
            /\ n < 100 => \E b \in 1..100 : batches[b] = << >>
            /\ Len(test_preds) = n
            /\ \A i \in 1..n : test_preds[i] = linear_predictor[ev_features[i]]
            /\ Len(ev_labels) = n => Len(test_preds) = Len(ev_labels)

\* 120 rows: twenty batches of two rows, eighty of one, and predictions that
\* follow the rows' alternation.
C12_Witness ==
    /\ ev_status = "returned"
    /\ Len(ev_features) = 120
    /\ Len(batches[20]) = 2 /\ Len(batches[21]) = 1
    /\ batches[100] = <<ev_features[120]>>
    /\ test_preds = Repeated(<<1, 0>>, 120)

====
